---- MODULE Spec2Model ----
(***************************************************************************)
(* PrefixSpan sequential pattern miner (src/algo/prefixspan.py) over the   *)
(* token database of src/utils/sequence_utils.py.                          *)
(*                                                                         *)
(* Python lists are sequences; positions keep Python's 0-based numbering   *)
(* and are read with At / written with Put.  A dict is a sequence of       *)
(* [key, val] records in insertion order, which is the order Python        *)
(* iterates it in.  The recursion of the two growth procedures is an       *)
(* explicit call stack, one frame per active call.                         *)
(***************************************************************************)
EXTENDS Integers, Sequences, FiniteSets, TLC

VARIABLES
    max_len,            \* PrefixSpan.max_len
    min_len,            \* PrefixSpan.min_len
    total_time_ms,      \* PrefixSpan.total_time_ms
    pattern_count,      \* PrefixSpan.pattern_count
    minsupp_abs,        \* PrefixSpan._minsupp_abs
    db,                 \* PrefixSpan._db: None, or SequenceDatabase.sequences
    sequence_count,     \* PrefixSpan._sequence_count
    contains_itemsets_with_multiple_items,  \* the dispatch flag
    buffer,             \* PrefixSpan._buffer
    writer,             \* PrefixSpan._writer: "None" or "open"
    out_file,           \* the records held by the output file
    map_item_to_sids,   \* local of _prefixspan, handed to the growth path
    stack,              \* active calls of the growth procedures
    pc,                 \* position of run(): idle, find, prune, grow, finalize
    call,               \* arguments of the call of run() in progress
    pending,            \* calls of run() the caller still makes, in order
    raised,             \* the last call of run() raised ValueError
    visited,            \* history: every node the search accepted
    n_projected,        \* history: calls of _build_projected_* in this run
    n_runs              \* history: calls of run() that got past its first check

vars == << max_len, min_len, total_time_ms, pattern_count, minsupp_abs, db,
           sequence_count, contains_itemsets_with_multiple_items, buffer,
           writer, out_file, map_item_to_sids, stack, pc, call, pending,
           raised, visited, n_projected, n_runs >>

(***************************************************************************)
(* Tokens                                                                  *)
(***************************************************************************)
SEP == -1
END == -2

(***************************************************************************)
(* Bounds of the model                                                     *)
(***************************************************************************)
MaxItem == 2            \* generated databases use items 1..MaxItem
MaxTokens == 3          \* item tokens of a generated database, all lines together
MaxSeqs == 2            \* lines of a generated database
MaxPatternLength == 3   \* maximum_pattern_length ranges over 1..MaxPatternLength
MaxMinLen == 2          \* min_len ranges over 1..MaxMinLen
MaxElapsedMs == 1       \* the clock advances by 0..MaxElapsedMs during a run
MaxRuns == 2            \* calls of run() made on one reused object

(***************************************************************************)
(* Python list and dict primitives                                         *)
(***************************************************************************)
At(s, i) == s[i + 1]
Put(s, i, v) == [s EXCEPT ![i + 1] = v]
Slice(s, n) == SubSeq(s, 1, n)
Last(s) == s[Len(s)]

HasKey(d, k) == \E i \in DOMAIN d : d[i].key = k
DictGet(d, k) == IF HasKey(d, k) THEN (CHOOSE x \in {d[i] : i \in DOMAIN d} : x.key = k).val ELSE << >>
\* d.setdefault(k, []).append(x)
DictAppend(d, k, x) ==
    IF HasKey(d, k)
    THEN [i \in DOMAIN d |-> IF d[i].key = k THEN [key |-> k, val |-> Append(d[i].val, x)] ELSE d[i]]
    ELSE Append(d, [key |-> k, val |-> << x >>])

(***************************************************************************)
(* src/utils/sequence_utils.py                                             *)
(***************************************************************************)
PseudoSequence(sid, pos) == [sequence_id |-> sid, index_first_item |-> pos]

\* A database entry: a token list, or None once pruning removed it.
Present(toks) == [absent |-> FALSE, toks |-> toks]
NoneEntry == [absent |-> TRUE, toks |-> << >>]

\* One non-blank line of the file, already split into integers.
LoadLine(toks) == IF toks # << >> /\ Last(toks) # END THEN Append(toks, END) ELSE toks
\* The file is the sequence of its non-blank lines (blank ones are skipped).
load_csv_tokens(file) == [i \in 1..Len(file) |-> Present(LoadLine(file[i]))]

(***************************************************************************)
(* Step 1: _find_sequences_containing_items                                *)
(***************************************************************************)
RECURSIVE FindTokens(_, _, _, _)
FindTokens(seq, j, sid, st) ==
    IF j >= Len(seq) THEN st
    ELSE LET tok == At(seq, j) IN
         IF tok > 0
         THEN FindTokens(seq, j + 1, sid,
                  [m |-> IF tok \notin st.seen THEN DictAppend(st.m, tok, sid) ELSE st.m,
                   seen |-> st.seen \cup {tok},
                   count |-> st.count + 1,
                   multi |-> st.multi \/ (st.count + 1 > 1)])
         ELSE IF tok = SEP THEN FindTokens(seq, j + 1, sid, [st EXCEPT !.count = 0])
         ELSE IF tok = END THEN st
         ELSE FindTokens(seq, j + 1, sid, st)

RECURSIVE FindSeqs(_, _, _)
FindSeqs(sequences, sid, st) ==
    IF sid >= Len(sequences) THEN st
    ELSE LET r == FindTokens(At(sequences, sid).toks, 0, sid,
                             [m |-> st.m, multi |-> st.multi, seen |-> {}, count |-> 0])
         IN FindSeqs(sequences, sid + 1, [m |-> r.m, multi |-> r.multi])

\* find_sequences_containing_items without the reset of the flag.
find_keeping_flag(sequences) ==
    FindSeqs(sequences, 0, [m |-> << >>, multi |-> contains_itemsets_with_multiple_items])

\* [m |-> item -> sids, multi |-> the flag], the flag starting from False.
find_sequences_containing_items(sequences) ==
    FindSeqs(sequences, 0, [m |-> << >>, multi |-> FALSE])

Frequent(m, tok, minsup) == Len(DictGet(m, tok)) >= minsup

(***************************************************************************)
(* Pruning loops of the two growth paths (in place)                        *)
(***************************************************************************)
RECURSIVE PruneSingleTokens(_, _, _, _, _)
PruneSingleTokens(seq, j, write_pos, m, minsup) ==
    IF j >= Len(seq) THEN Present(seq)
    ELSE LET tok == At(seq, j) IN
         IF tok > 0
         THEN IF Frequent(m, tok, minsup)
              THEN PruneSingleTokens(Put(seq, write_pos, tok), j + 1, write_pos + 1, m, minsup)
              ELSE PruneSingleTokens(seq, j + 1, write_pos, m, minsup)
         ELSE IF tok = END
         THEN IF write_pos > 0
              THEN Present(Slice(Put(seq, write_pos, END), write_pos + 1))
              ELSE NoneEntry
         ELSE PruneSingleTokens(seq, j + 1, write_pos, m, minsup)

PruneSingle(sequences, m, minsup) ==
    [i \in 1..Len(sequences) |->
        IF sequences[i].absent THEN sequences[i]
        ELSE PruneSingleTokens(sequences[i].toks, 0, 0, m, minsup)]

RECURSIVE PruneMultiTokens(_, _, _, _, _, _)
PruneMultiTokens(seq, j, write_pos, count_in_itemset, m, minsup) ==
    IF j >= Len(seq) THEN Present(seq)
    ELSE LET tok == At(seq, j) IN
         IF tok > 0
         THEN IF Frequent(m, tok, minsup)
              THEN PruneMultiTokens(Put(seq, write_pos, tok), j + 1, write_pos + 1,
                                    count_in_itemset + 1, m, minsup)
              ELSE PruneMultiTokens(seq, j + 1, write_pos, count_in_itemset, m, minsup)
         ELSE IF tok = SEP
         THEN IF count_in_itemset > 0
              THEN PruneMultiTokens(Put(seq, write_pos, SEP), j + 1, write_pos + 1, 0, m, minsup)
              ELSE PruneMultiTokens(seq, j + 1, write_pos, count_in_itemset, m, minsup)
         ELSE IF tok = END
         THEN IF write_pos > 0
              THEN Present(Slice(Put(seq, write_pos, END), write_pos + 1))
              ELSE NoneEntry
         ELSE PruneMultiTokens(seq, j + 1, write_pos, count_in_itemset, m, minsup)

PruneMulti(sequences, m, minsup) ==
    [i \in 1..Len(sequences) |->
        IF sequences[i].absent THEN sequences[i]
        ELSE PruneMultiTokens(sequences[i].toks, 0, 0, 0, m, minsup)]

(***************************************************************************)
(* First projection of a frequent item                                     *)
(***************************************************************************)
\* ProjectSingleFrom with the cursor left on the item instead of past it.
RECURSIVE ProjectSingleOnItem(_, _, _, _)
ProjectSingleOnItem(seq, j, item, sid) ==
    IF At(seq, j) = END THEN << >>
    ELSE IF At(seq, j) = item
    THEN IF At(seq, j + 1) # END THEN << PseudoSequence(sid, j) >> ELSE << >>
    ELSE ProjectSingleOnItem(seq, j + 1, item, sid)

RECURSIVE ProjectSingleFrom(_, _, _, _)
ProjectSingleFrom(seq, j, item, sid) ==
    IF At(seq, j) = END THEN << >>
    ELSE IF At(seq, j) = item
    THEN IF At(seq, j + 1) # END THEN << PseudoSequence(sid, j + 1) >> ELSE << >>
    ELSE ProjectSingleFrom(seq, j + 1, item, sid)

RECURSIVE build_projected_single_items(_, _, _)
build_projected_single_items(sequences, item, sids) ==
    IF sids = << >> THEN << >>
    ELSE LET sid == Head(sids)
             rest == build_projected_single_items(sequences, item, Tail(sids))
         IN IF At(sequences, sid).absent THEN rest
            ELSE ProjectSingleFrom(At(sequences, sid).toks, 0, item, sid) \o rest

RECURSIVE ProjectMultiFrom(_, _, _, _)
ProjectMultiFrom(seq, j, item, sid) ==
    IF At(seq, j) = END THEN << >>
    ELSE IF At(seq, j) = item
    THEN LET end == \/ At(seq, j + 1) = END
                    \/ (At(seq, j + 1) = SEP /\ At(seq, j + 2) = END)
         IN IF ~end THEN << PseudoSequence(sid, j + 1) >> ELSE << >>
    ELSE ProjectMultiFrom(seq, j + 1, item, sid)

RECURSIVE build_projected_first_time_multi(_, _, _)
build_projected_first_time_multi(sequences, item, sids) ==
    IF sids = << >> THEN << >>
    ELSE LET sid == Head(sids)
             rest == build_projected_first_time_multi(sequences, item, Tail(sids))
         IN IF At(sequences, sid).absent THEN rest
            ELSE ProjectMultiFrom(At(sequences, sid).toks, 0, item, sid) \o rest

(***************************************************************************)
(* Candidate scans at the head of the two recursive procedures             *)
(***************************************************************************)
\* RecordOnce without its test of the last recorded sequence id.
RecordAlways(d, tok, sid, pos) == DictAppend(d, tok, PseudoSequence(sid, pos))

\* lst = d.setdefault(tok, []); if not lst or lst[-1].sequence_id != sid: lst.append(...)
RecordOnce(d, tok, sid, pos) ==
    IF HasKey(d, tok) /\ Last(DictGet(d, tok)).sequence_id = sid
    THEN d
    ELSE DictAppend(d, tok, PseudoSequence(sid, pos))

RECURSIVE ScanSingleTokens(_, _, _, _)
ScanSingleTokens(seq, i, sid, items_to_pseqs) ==
    IF At(seq, i) = END THEN items_to_pseqs
    ELSE LET tok == At(seq, i) IN
         ScanSingleTokens(seq, i + 1, sid,
             IF tok > 0 THEN RecordOnce(items_to_pseqs, tok, sid, i + 1) ELSE items_to_pseqs)

RECURSIVE ScanSingle(_, _, _)
ScanSingle(sequences, database, items_to_pseqs) ==
    IF database = << >> THEN items_to_pseqs
    ELSE LET pseq == Head(database)
             seq == At(sequences, pseq.sequence_id).toks
         IN ScanSingle(sequences, Tail(database),
                ScanSingleTokens(seq, pseq.index_first_item, pseq.sequence_id, items_to_pseqs))

RECURSIVE FirstPosLastItemset(_, _)
FirstPosLastItemset(buf, pos) ==
    IF pos > 0 /\ At(buf, pos - 1) # SEP THEN FirstPosLastItemset(buf, pos - 1) ELSE pos

\* st: the two candidate maps and the scan state of one pseudo-sequence.
RECURSIVE ScanMultiTokens(_, _, _, _, _, _, _)
ScanMultiTokens(seq, i, sid, buf, first_pos_last_itemset, last_buf_pos, st) ==
    IF At(seq, i) = END THEN st
    ELSE LET tok == At(seq, i) IN
         IF tok > 0
         THEN LET post1 == IF st.current_itemset_is_postfix
                           THEN RecordOnce(st.map_postfix, tok, sid, i + 1) ELSE st.map_postfix
                  norm1 == IF st.current_itemset_is_postfix
                           THEN st.map_normal ELSE RecordOnce(st.map_normal, tok, sid, i + 1)
                  norm2 == IF st.current_itemset_is_postfix /\ ~st.is_first_itemset
                           THEN RecordOnce(norm1, tok, sid, i + 1) ELSE norm1
                  matched == (~st.current_itemset_is_postfix)
                             /\ At(buf, st.position_to_match) = tok
                  pos1 == IF matched THEN st.position_to_match + 1 ELSE st.position_to_match
              IN ScanMultiTokens(seq, i + 1, sid, buf, first_pos_last_itemset, last_buf_pos,
                     [map_postfix |-> post1, map_normal |-> norm2,
                      current_itemset_is_postfix |->
                          st.current_itemset_is_postfix \/ (matched /\ pos1 > last_buf_pos),
                      is_first_itemset |-> st.is_first_itemset,
                      position_to_match |-> pos1])
         ELSE IF tok = SEP
         THEN ScanMultiTokens(seq, i + 1, sid, buf, first_pos_last_itemset, last_buf_pos,
                  [st EXCEPT !.is_first_itemset = FALSE,
                             !.current_itemset_is_postfix = FALSE,
                             !.position_to_match = first_pos_last_itemset])
         ELSE ScanMultiTokens(seq, i + 1, sid, buf, first_pos_last_itemset, last_buf_pos, st)

RECURSIVE ScanMultiSeqs(_, _, _, _, _, _)
ScanMultiSeqs(sequences, database, buf, first_pos_last_itemset, last_buf_pos, maps) ==
    IF database = << >> THEN maps
    ELSE LET pseq == Head(database)
             seq == At(sequences, pseq.sequence_id).toks
             prev_tok == At(seq, pseq.index_first_item - 1)
             r == ScanMultiTokens(seq, pseq.index_first_item, pseq.sequence_id, buf,
                      first_pos_last_itemset, last_buf_pos,
                      [map_postfix |-> maps.map_postfix, map_normal |-> maps.map_normal,
                       current_itemset_is_postfix |-> (prev_tok # SEP),
                       is_first_itemset |-> TRUE,
                       position_to_match |-> first_pos_last_itemset])
         IN ScanMultiSeqs(sequences, Tail(database), buf, first_pos_last_itemset, last_buf_pos,
                [map_postfix |-> r.map_postfix, map_normal |-> r.map_normal])

\* ScanMulti with the i-extension candidates lost.
ScanMultiNoPostfix(sequences, database, buf, last_buf_pos) ==
    [map_postfix |-> << >>,
     map_normal |-> ScanMultiSeqs(sequences, database, buf, FirstPosLastItemset(buf, last_buf_pos),
                                  last_buf_pos, [map_postfix |-> << >>, map_normal |-> << >>]).map_normal]

ScanMulti(sequences, database, buf, last_buf_pos) ==
    ScanMultiSeqs(sequences, database, buf, FirstPosLastItemset(buf, last_buf_pos),
                  last_buf_pos, [map_postfix |-> << >>, map_normal |-> << >>])

(***************************************************************************)
(* PatternWriter                                                           *)
(***************************************************************************)
RECURSIVE CountItems(_, _)
CountItems(buf, n) == IF n = 0 THEN 0 ELSE CountItems(buf, n - 1) + (IF buf[n] > 0 THEN 1 ELSE 0)

\* pattern_length_in_buffer counting itemsets instead of items.
RECURSIVE CountSeparators(_, _)
CountSeparators(buf, n) ==
    IF n = 0 THEN 0 ELSE CountSeparators(buf, n - 1) + (IF buf[n] = SEP THEN 1 ELSE 0)
itemset_count_in_buffer(buf, tokens_end_idx) == CountSeparators(buf, tokens_end_idx + 1) + 1

pattern_length_in_buffer(buf, tokens_end_idx) == CountItems(buf, tokens_end_idx + 1)

\* The itemsets of buf[0..tokens_end_idx], as the writer groups them: a
\* separator closes a non-empty group, the last group is closed at the end.
RECURSIVE DecodeFrom(_, _, _, _, _)
DecodeFrom(buf, i, tokens_end_idx, pattern, current_itemset) ==
    IF i > tokens_end_idx
    THEN IF current_itemset # << >> THEN Append(pattern, current_itemset) ELSE pattern
    ELSE LET tok == At(buf, i) IN
         IF tok = SEP
         THEN IF current_itemset # << >>
              THEN DecodeFrom(buf, i + 1, tokens_end_idx, Append(pattern, current_itemset), << >>)
              ELSE DecodeFrom(buf, i + 1, tokens_end_idx, pattern, current_itemset)
         ELSE IF tok > 0
         THEN DecodeFrom(buf, i + 1, tokens_end_idx, pattern, Append(current_itemset, tok))
         ELSE DecodeFrom(buf, i + 1, tokens_end_idx, pattern, current_itemset)

DecodePattern(buf, tokens_end_idx) == DecodeFrom(buf, 0, tokens_end_idx, << >>, << >>)

\* One line of the output file: the pattern text and the number after #SUP:.
Record(pattern, support) == [pattern |-> pattern, support |-> support]

\* e is the engine: a record of the fields of PrefixSpan and of the run.
MinLenPasses(length, minimum) == ~(length < minimum)

write_pattern_tokens(e, tokens_end_idx, pseudo_sequences) ==
    IF ~MinLenPasses(pattern_length_in_buffer(e.buffer, tokens_end_idx), e.min_len)
    THEN e
    ELSE [e EXCEPT !.pattern_count = @ + 1,
                   !.out_file = Append(@, Record(DecodePattern(e.buffer, tokens_end_idx),
                                                 Len(pseudo_sequences)))]

write_single(e, item, support) ==
    IF e.min_len > 1
    THEN e
    ELSE [e EXCEPT !.pattern_count = @ + 1,
                   !.out_file = Append(@, Record(<< << item >> >>, support))]

(***************************************************************************)
(* The engine: the fields of one PrefixSpan object and of its run          *)
(***************************************************************************)
NoDatabase == [is_none |-> TRUE, sequences |-> << >>]
SequenceDatabase(sequences) == [is_none |-> FALSE, sequences |-> sequences]

\* Python's None as an output_file argument.
Missing == "None"
Falsy(output_file) == output_file = "" \/ output_file = Missing

CeilDiv(a, b) == (a + b - 1) \div b
\* int(ceil(minsup_relative * n)), at least 1; minsup_relative is num/den.
AbsoluteSupport(minsup_relative, n) ==
    LET c == CeilDiv(minsup_relative[1] * n, minsup_relative[2])
    IN IF c <= 0 THEN 1 ELSE c

Eng ==
    [max_len |-> max_len, min_len |-> min_len, total_time_ms |-> total_time_ms,
     pattern_count |-> pattern_count, minsupp_abs |-> minsupp_abs, db |-> db,
     sequence_count |-> sequence_count,
     contains_itemsets_with_multiple_items |-> contains_itemsets_with_multiple_items,
     buffer |-> buffer, writer |-> writer, out_file |-> out_file,
     map_item_to_sids |-> map_item_to_sids, stack |-> stack, pc |-> pc,
     call |-> call, pending |-> pending, raised |-> raised, visited |-> visited,
     n_projected |-> n_projected, n_runs |-> n_runs]

Becomes(e) ==
    /\ max_len' = e.max_len
    /\ min_len' = e.min_len
    /\ total_time_ms' = e.total_time_ms
    /\ pattern_count' = e.pattern_count
    /\ minsupp_abs' = e.minsupp_abs
    /\ db' = e.db
    /\ sequence_count' = e.sequence_count
    /\ contains_itemsets_with_multiple_items' = e.contains_itemsets_with_multiple_items
    /\ buffer' = e.buffer
    /\ writer' = e.writer
    /\ out_file' = e.out_file
    /\ map_item_to_sids' = e.map_item_to_sids
    /\ stack' = e.stack
    /\ pc' = e.pc
    /\ call' = e.call
    /\ pending' = e.pending
    /\ raised' = e.raised
    /\ visited' = e.visited
    /\ n_projected' = e.n_projected
    /\ n_runs' = e.n_runs

Starts(e) ==
    /\ max_len = e.max_len
    /\ min_len = e.min_len
    /\ total_time_ms = e.total_time_ms
    /\ pattern_count = e.pattern_count
    /\ minsupp_abs = e.minsupp_abs
    /\ db = e.db
    /\ sequence_count = e.sequence_count
    /\ contains_itemsets_with_multiple_items = e.contains_itemsets_with_multiple_items
    /\ buffer = e.buffer
    /\ writer = e.writer
    /\ out_file = e.out_file
    /\ map_item_to_sids = e.map_item_to_sids
    /\ stack = e.stack
    /\ pc = e.pc
    /\ call = e.call
    /\ pending = e.pending
    /\ raised = e.raised
    /\ visited = e.visited
    /\ n_projected = e.n_projected
    /\ n_runs = e.n_runs

\* A frame of the call stack.  loop1/i1 and loop2/i2 are the dicts the call
\* iterates and how far it got; parent_support is the support the caller
\* computed for the pattern this call extends.
Frame(fn, k, last_buf_pos, database, parent_support, loop1, loop2) ==
    [fn |-> fn, k |-> k, last_buf_pos |-> last_buf_pos, database |-> database,
     parent_support |-> parent_support, loop1 |-> loop1, i1 |-> 1, loop2 |-> loop2, i2 |-> 1]

Top(e) == Last(e.stack)
Note(e, pattern, support) == [e EXCEPT !.visited = Append(@, Record(pattern, support))]

(***************************************************************************)
(* run(): the first check, the load, the threshold, the open               *)
(***************************************************************************)
\* RunRejects testing for None only.
RunRejectsNone(output_file) == output_file = Missing
RunRejects(output_file) == Falsy(output_file)

RunInvalidEff(e) == [e EXCEPT !.raised = TRUE, !.pending = Tail(@)]

RunBeginEff(e) ==
    LET c == Head(e.pending)
        sequences == load_csv_tokens(c.input_csv)
    IN [e EXCEPT !.pattern_count = 0,
                 !.db = SequenceDatabase(sequences),
                 !.sequence_count = Len(sequences),
                 !.minsupp_abs = AbsoluteSupport(c.minsup_relative, Len(sequences)),
                 !.writer = "open",
                 !.out_file = << >>,
                 !.call = c,
                 !.pending = Tail(@),
                 !.raised = FALSE,
                 !.visited = << >>,
                 !.n_projected = 0,
                 !.n_runs = @ + 1,
                 !.pc = "find"]

FindEff(e) ==
    LET r == find_sequences_containing_items(e.db.sequences)
    IN [e EXCEPT !.map_item_to_sids = r.m,
                 !.contains_itemsets_with_multiple_items = r.multi,
                 !.pc = "prune"]

\* _prefixspan's branch, and the pruning loop at the head of the path taken.
UsesMultiPath(e) == e.contains_itemsets_with_multiple_items

DispatchEff(e) ==
    IF UsesMultiPath(e)
    THEN [e EXCEPT !.db = SequenceDatabase(PruneMulti(e.db.sequences, e.map_item_to_sids, e.minsupp_abs)),
                   !.stack = << Frame("prefixspan_with_multiple_items", 1, 0, << >>,
                                      e.sequence_count, e.map_item_to_sids, << >>) >>,
                   !.pc = "grow"]
    ELSE [e EXCEPT !.db = SequenceDatabase(PruneSingle(e.db.sequences, e.map_item_to_sids, e.minsupp_abs)),
                   !.stack = << Frame("prefixspan_with_single_items", 1, 0, << >>,
                                      e.sequence_count, e.map_item_to_sids, << >>) >>,
                   !.pc = "grow"]

(***************************************************************************)
(* The growth procedures                                                   *)
(***************************************************************************)
\* Entering _recursion_single_items(database, k, last_buf_pos).
CallRecursionSingle(e, database, k, last_buf_pos, parent_support) ==
    [e EXCEPT !.stack = Append(@,
        Frame("recursion_single_items", k, last_buf_pos, database, parent_support,
              ScanSingle(e.db.sequences, database, << >>), << >>))]

\* Entering _recursion_multi(database, k, last_buf_pos).
CallRecursionMulti(e, database, k, last_buf_pos, parent_support) ==
    LET maps == ScanMulti(e.db.sequences, database, e.buffer, last_buf_pos)
    IN [e EXCEPT !.stack = Append(@,
           Frame("recursion_multi", k, last_buf_pos, database, parent_support,
                 maps.map_postfix, maps.map_normal))]

GrowsBeyondOne(maximum) == maximum > 1
\* Deeper off by one.
DeeperOrEqual(k, maximum) == k <= maximum
Deeper(k, maximum) == k < maximum

\* One iteration of the item loop of _prefixspan_with_single_items.
TopSingleEff(e) ==
    LET f == Top(e)
        item == f.loop1[f.i1].key
        sids == f.loop1[f.i1].val
        sup == Len(sids)
        e0 == [e EXCEPT !.stack[Len(e.stack)].i1 = @ + 1]
    IN IF sup >= e.minsupp_abs
       THEN LET e1 == Note(write_single(e0, item, sup), << << item >> >>, sup)
            IN IF GrowsBeyondOne(e.max_len)
               THEN LET e2 == [e1 EXCEPT !.buffer = Put(@, 0, item), !.n_projected = @ + 1]
                        projected == build_projected_single_items(e.db.sequences, item, sids)
                    IN CallRecursionSingle(e2, projected, 2, 0, sup)
               ELSE e1
       ELSE e0

\* One iteration of the item loop of _prefixspan_with_multiple_items.
TopMultiEff(e) ==
    LET f == Top(e)
        item == f.loop1[f.i1].key
        sids == f.loop1[f.i1].val
        sup == Len(sids)
        e0 == [e EXCEPT !.stack[Len(e.stack)].i1 = @ + 1]
    IN IF sup >= e.minsupp_abs
       THEN LET e1 == Note(write_single(e0, item, sup), << << item >> >>, sup)
            IN IF GrowsBeyondOne(e.max_len)
               THEN LET e2 == [e1 EXCEPT !.buffer = Put(@, 0, item), !.n_projected = @ + 1]
                        projected == build_projected_first_time_multi(e.db.sequences, item, sids)
                    IN CallRecursionMulti(e2, projected, 2, 0, sup)
               ELSE e1
       ELSE e0

\* GrowSingleEff writing its separator over the caller's last token.
GrowSingleOverCaller(e) ==
    LET f == Top(e)
        item == f.loop1[f.i1].key
        pseqs == f.loop1[f.i1].val
        e0 == [e EXCEPT !.stack[Len(e.stack)].i1 = @ + 1]
    IN IF Len(pseqs) >= e.minsupp_abs
       THEN LET e1 == [e0 EXCEPT !.buffer = Put(Put(@, f.last_buf_pos, SEP),
                                                f.last_buf_pos + 1, item)]
                e2 == Note(write_pattern_tokens(e1, f.last_buf_pos + 1, pseqs),
                           DecodePattern(e1.buffer, f.last_buf_pos + 1), Len(pseqs))
            IN IF Deeper(f.k, e.max_len)
               THEN CallRecursionSingle(e2, pseqs, f.k + 1, f.last_buf_pos + 1, Len(pseqs))
               ELSE e2
       ELSE e0

\* One iteration of the candidate loop of _recursion_single_items.
GrowSingleEff(e) ==
    LET f == Top(e)
        item == f.loop1[f.i1].key
        pseqs == f.loop1[f.i1].val
        e0 == [e EXCEPT !.stack[Len(e.stack)].i1 = @ + 1]
    IN IF Len(pseqs) >= e.minsupp_abs
       THEN LET e1 == [e0 EXCEPT !.buffer = Put(Put(@, f.last_buf_pos + 1, SEP),
                                                f.last_buf_pos + 2, item)]
                e2 == Note(write_pattern_tokens(e1, f.last_buf_pos + 2, pseqs),
                           DecodePattern(e1.buffer, f.last_buf_pos + 2), Len(pseqs))
            IN IF Deeper(f.k, e.max_len)
               THEN CallRecursionSingle(e2, pseqs, f.k + 1, f.last_buf_pos + 2, Len(pseqs))
               ELSE e2
       ELSE e0

\* One iteration of the map_postfix loop of _recursion_multi (i-extension).
GrowPostfixEff(e) ==
    LET f == Top(e)
        item == f.loop1[f.i1].key
        pseqs == f.loop1[f.i1].val
        new_pos == f.last_buf_pos + 1
        e0 == [e EXCEPT !.stack[Len(e.stack)].i1 = @ + 1]
    IN IF Len(pseqs) >= e.minsupp_abs
       THEN LET e1 == [e0 EXCEPT !.buffer = Put(@, new_pos, item)]
                e2 == Note(write_pattern_tokens(e1, new_pos, pseqs),
                           DecodePattern(e1.buffer, new_pos), Len(pseqs))
            IN IF Deeper(f.k, e.max_len)
               THEN CallRecursionMulti(e2, pseqs, f.k + 1, new_pos, Len(pseqs))
               ELSE e2
       ELSE e0

\* One iteration of the map_normal loop of _recursion_multi (s-extension).
GrowNormalEff(e) ==
    LET f == Top(e)
        item == f.loop2[f.i2].key
        pseqs == f.loop2[f.i2].val
        new_pos == f.last_buf_pos + 1
        e0 == [e EXCEPT !.stack[Len(e.stack)].i2 = @ + 1]
    IN IF Len(pseqs) >= e.minsupp_abs
       THEN LET e1 == [e0 EXCEPT !.buffer = Put(Put(@, new_pos, SEP), new_pos + 1, item)]
                e2 == Note(write_pattern_tokens(e1, new_pos + 1, pseqs),
                           DecodePattern(e1.buffer, new_pos + 1), Len(pseqs))
            IN IF Deeper(f.k, e.max_len)
               THEN CallRecursionMulti(e2, pseqs, f.k + 1, new_pos + 1, Len(pseqs))
               ELSE e2
       ELSE e0

\* The call on top of the stack ran out of candidates and returns.
ReturnEff(e) ==
    [e EXCEPT !.stack = Slice(@, Len(@) - 1),
              !.pc = IF Len(e.stack) = 1 THEN "finalize" ELSE "grow"]

\* run()'s last lines: the elapsed time, the close, the detach.
FinishEff(e, elapsed) ==
    [e EXCEPT !.total_time_ms = elapsed,
              !.writer = "None",
              !.db = NoDatabase,
              !.pc = "idle"]

(***************************************************************************)
(* Which step is next                                                      *)
(***************************************************************************)
Growing(e, fn) == e.pc = "grow" /\ Top(e).fn = fn
InLoop1(e) == Top(e).i1 <= Len(Top(e).loop1)
InLoop2(e) == Top(e).i1 > Len(Top(e).loop1) /\ Top(e).i2 <= Len(Top(e).loop2)

CanRunInvalid(e) == e.pc = "idle" /\ e.pending # << >> /\ RunRejects(Head(e.pending).output_file)
CanRunBegin(e) == e.pc = "idle" /\ e.pending # << >> /\ ~RunRejects(Head(e.pending).output_file)
CanTopSingle(e) == Growing(e, "prefixspan_with_single_items") /\ InLoop1(e)
CanTopMulti(e) == Growing(e, "prefixspan_with_multiple_items") /\ InLoop1(e)
CanGrowSingle(e) == Growing(e, "recursion_single_items") /\ InLoop1(e)
CanGrowPostfix(e) == Growing(e, "recursion_multi") /\ InLoop1(e)
CanGrowNormal(e) == Growing(e, "recursion_multi") /\ InLoop2(e)
CanReturn(e) == e.pc = "grow" /\ ~InLoop1(e) /\ ~InLoop2(e)

\* The step a run in progress takes next (it takes no input).
StepEng(e) ==
    IF e.pc = "find" THEN FindEff(e)
    ELSE IF e.pc = "prune" THEN DispatchEff(e)
    ELSE IF CanTopSingle(e) THEN TopSingleEff(e)
    ELSE IF CanTopMulti(e) THEN TopMultiEff(e)
    ELSE IF CanGrowSingle(e) THEN GrowSingleEff(e)
    ELSE IF CanGrowPostfix(e) THEN GrowPostfixEff(e)
    ELSE IF CanGrowNormal(e) THEN GrowNormalEff(e)
    ELSE ReturnEff(e)

\* The engine as run() leaves it just before its last lines.
RECURSIVE RunToFinalize(_)
RunToFinalize(e) == IF e.pc = "finalize" THEN e ELSE RunToFinalize(StepEng(e))

(***************************************************************************)
(* Actions                                                                 *)
(***************************************************************************)
RunInvalid == CanRunInvalid(Eng) /\ Becomes(RunInvalidEff(Eng))
RunBegin == CanRunBegin(Eng) /\ Becomes(RunBeginEff(Eng))
FindItems == pc = "find" /\ Becomes(FindEff(Eng))
Dispatch == pc = "prune" /\ Becomes(DispatchEff(Eng))
TopSingle == CanTopSingle(Eng) /\ Becomes(TopSingleEff(Eng))
TopMulti == CanTopMulti(Eng) /\ Becomes(TopMultiEff(Eng))
GrowSingle == CanGrowSingle(Eng) /\ Becomes(GrowSingleEff(Eng))
GrowPostfix == CanGrowPostfix(Eng) /\ Becomes(GrowPostfixEff(Eng))
GrowNormal == CanGrowNormal(Eng) /\ Becomes(GrowNormalEff(Eng))
Return == CanReturn(Eng) /\ Becomes(ReturnEff(Eng))
Finish == pc = "finalize" /\ \E elapsed \in 0..MaxElapsedMs : Becomes(FinishEff(Eng, elapsed))

Next ==
    \/ RunInvalid
    \/ RunBegin
    \/ FindItems
    \/ Dispatch
    \/ TopSingle
    \/ TopMulti
    \/ GrowSingle
    \/ GrowPostfix
    \/ GrowNormal
    \/ Return
    \/ Finish

(***************************************************************************)
(* Inputs                                                                  *)
(***************************************************************************)
Items == 1..MaxItem

\* The items of the last itemset of a line under construction.
RECURSIVE LastItemset(_)
LastItemset(body) ==
    IF body = << >> \/ Last(body) = SEP THEN {}
    ELSE LastItemset(Slice(body, Len(body) - 1)) \cup {Last(body)}

\* Lines of exactly t item tokens: non-empty itemsets of distinct items, in
\* any order inside an itemset, a separator between two itemsets.
RECURSIVE Bodies(_)
Bodies(t) ==
    IF t = 1 THEN {<< a >> : a \in Items}
    ELSE UNION {{Append(b, a) : a \in Items \ LastItemset(b)}
                \cup {b \o << SEP, a >> : a \in Items} : b \in Bodies(t - 1)}

\* The last itemset closed by a separator (1,-1,-2) or not (1,-2).
LinesWith(t) == UNION {{b \o << END >>, b \o << SEP, END >>} : b \in Bodies(t)}

\* Files of n lines holding t item tokens in all.
RECURSIVE FilesWith(_, _)
FilesWith(t, n) ==
    IF n = 0 THEN (IF t = 0 THEN {<< >>} ELSE {})
    ELSE UNION {{Append(f, l) : f \in FilesWith(t - s, n - 1), l \in LinesWith(s)} : s \in 1..t}

GeneratedFiles == UNION {FilesWith(t, n) : t \in 0..MaxTokens, n \in 0..MaxSeqs}

\* The spec's two end-to-end examples; a file mixing a flat line that lacks
\* its terminator with a line whose two-item itemset holds an item (3) the
\* other line does not; a file whose two lines write one itemset in two orders.
ExampleFlat == << << 1, SEP, 2, SEP, 3, SEP, END >>, << 1, SEP, 3, SEP, END >> >>
ExampleItemsets == << << 1, 2, SEP, 3, END >> >>
ExampleMixed == << << 1, SEP, 2 >>, << 2, 3, END >> >>
ExampleUnordered == << << 1, 2, END >>, << 2, 1, END >> >>
\* A line that yields no tokens (","), before a line of one two-item itemset
\* and before a flat line; a line with tokens after its terminator.
ExampleNoTokensItemsets == << << >>, << 1, 2, END >> >>
ExampleNoTokensFlat == << << >>, << 1, SEP, 2 >> >>
ExampleTwoTerminators == << << 1, END, 2 >>, << 2, SEP, 1, END >> >>
ExampleFiles ==
    {ExampleFlat, ExampleItemsets, ExampleMixed, ExampleUnordered,
     ExampleNoTokensItemsets, ExampleNoTokensFlat, ExampleTwoTerminators}

Supports == {<< 1, 2 >>, << 1, 1 >>}

CallOf(input_csv, minsup_relative, output_file) ==
    [input_csv |-> input_csv, minsup_relative |-> minsup_relative, output_file |-> output_file]

ValidCalls(files) == {CallOf(f, s, "out.txt") : f \in files, s \in Supports}
InvalidCalls(files) == {CallOf(f, << 1, 1 >>, o) : f \in files, o \in {"", Missing}}

\* One call per object, as gui.py makes it.
SingleScripts ==
    {<< c >> : c \in ValidCalls(GeneratedFiles \cup ExampleFiles) \cup InvalidCalls({ExampleFlat})}

\* An object reused for up to MaxRuns calls.
ReuseFiles == {ExampleFlat, ExampleItemsets, ExampleMixed, ExampleUnordered, << >>}
ReuseCalls == ValidCalls(ReuseFiles) \cup InvalidCalls({ExampleItemsets})
RECURSIVE ScriptsOf(_)
ScriptsOf(n) ==
    IF n = 0 THEN {<< >>}
    ELSE ScriptsOf(n - 1) \cup {Append(p, c) : p \in ScriptsOf(n - 1), c \in ReuseCalls}
ReuseScripts == ScriptsOf(MaxRuns) \ {<< >>}

(***************************************************************************)
(* Construction                                                            *)
(***************************************************************************)
BufferLen == 2 * MaxPatternLength
NoCall == CallOf(<< >>, << 1, 1 >>, "")

\* PrefixSpan.__init__(maximum_pattern_length, min_len)
Constructed(maximum_pattern_length, min_len_arg, script) ==
    [max_len |-> maximum_pattern_length,
     min_len |-> IF min_len_arg > 1 THEN min_len_arg ELSE 1,
     total_time_ms |-> 0, pattern_count |-> 0, minsupp_abs |-> 1, db |-> NoDatabase,
     sequence_count |-> 0, contains_itemsets_with_multiple_items |-> FALSE,
     buffer |-> [i \in 1..BufferLen |-> 0], writer |-> "None", out_file |-> << >>,
     map_item_to_sids |-> << >>, stack |-> << >>, pc |-> "idle", call |-> NoCall,
     pending |-> script, raised |-> FALSE, visited |-> << >>, n_projected |-> 0,
     n_runs |-> 0]

InitWith(scripts) ==
    \E maximum_pattern_length \in 1..MaxPatternLength, min_len_arg \in 0..MaxMinLen,
       script \in scripts :
        Starts(Constructed(maximum_pattern_length, min_len_arg, script))

Init == InitWith(SingleScripts)
InitReuse == InitWith(ReuseScripts)

Spec == Init /\ [][Next]_vars
SpecReuse == InitReuse /\ [][Next]_vars

(***************************************************************************)
(* What the claims speak of: itemsets as sets, containment, support        *)
(***************************************************************************)
Range(s) == {s[i] : i \in DOMAIN s}

\* The tokens of a line before its terminator.
RECURSIVE BeforeEnd(_)
BeforeEnd(toks) ==
    IF toks = << >> \/ Head(toks) = END THEN << >>
    ELSE << Head(toks) >> \o BeforeEnd(Tail(toks))

\* The runs of item tokens between separators, empty runs dropped.
RECURSIVE ItemGroups(_, _)
ItemGroups(toks, current) ==
    IF toks = << >> THEN (IF current # << >> THEN << current >> ELSE << >>)
    ELSE IF Head(toks) = SEP
    THEN (IF current # << >> THEN << current >> ELSE << >>) \o ItemGroups(Tail(toks), << >>)
    ELSE ItemGroups(Tail(toks), Append(current, Head(toks)))

GroupsOfLine(line) == ItemGroups(BeforeEnd(line), << >>)
AsSets(pattern) == [i \in DOMAIN pattern |-> Range(pattern[i])]
ItemsetsOfLine(line) == AsSets(GroupsOfLine(line))

\* pat (a sequence of sets) is contained in seq (a sequence of sets): its
\* itemsets are subsets of distinct itemsets of seq, in order.
RECURSIVE ContainedIn(_, _)
ContainedIn(pat, seq) ==
    IF pat = << >> THEN TRUE
    ELSE IF seq = << >> THEN FALSE
    ELSE IF Head(pat) \subseteq Head(seq) THEN ContainedIn(Tail(pat), Tail(seq))
    ELSE ContainedIn(pat, Tail(seq))

\* The number of distinct lines of the file that contain pat.
SupportOf(file, pat) ==
    Cardinality({i \in DOMAIN file : ContainedIn(pat, ItemsetsOfLine(file[i]))})

ItemsOfFile(file) == UNION {{t \in Range(file[i]) : t > 0} : i \in DOMAIN file}

RECURSIVE NumItems(_)
NumItems(pattern) == IF pattern = << >> THEN 0 ELSE Len(Head(pattern)) + NumItems(Tail(pattern))

\* Every sequence of non-empty subsets of items with at most n items in all.
RECURSIVE PatternsUpTo(_, _)
PatternsUpTo(items, n) ==
    {<< >>} \cup UNION {{<< S >> \o p : p \in PatternsUpTo(items, n - Cardinality(S))} :
                        S \in {T \in SUBSET items : T # {} /\ Cardinality(T) <= n}}

HasMultiItemset(file) ==
    \E i \in DOMAIN file : \E g \in Range(GroupsOfLine(file[i])) : Len(g) >= 2

Emitted == Range(out_file)

(***************************************************************************)
(* Claims                                                                  *)
(***************************************************************************)

\* C1: with min_len = 1, when the run has written its last record, every
\* pattern of at most max_len items whose support in the input file reaches
\* the absolute threshold is the pattern of some emitted record.
Completeness ==
    (pc = "finalize" /\ min_len = 1) =>
        \A P \in PatternsUpTo(ItemsOfFile(call.input_csv), max_len) \ {<< >>} :
            SupportOf(call.input_csv, P) >= minsupp_abs =>
                \E r \in Emitted : AsSets(r.pattern) = P

\* C2: on a file holding an itemset of two or more items, the support
\* written in every record is the number of lines that contain its pattern.
ExactSupportOnItemsetPath ==
    (pc = "finalize" /\ HasMultiItemset(call.input_csv)) =>
        \A r \in Emitted : r.support = SupportOf(call.input_csv, AsSets(r.pattern))

\* C10: no two records of the output file denote the same sequence of
\* itemsets, itemsets compared as sets.
NoPatternEmittedTwice ==
    \A i, j \in DOMAIN out_file :
        i < j => AsSets(out_file[i].pattern) # AsSets(out_file[j].pattern)

\* C3: the spec's second example, {1,2} then {3}, at relative support 1.0
\* with min_len = 1 and max_len >= 3, yields {1 2}, {1} {2}, {1} {3},
\* {2} {3} and {1 2} {3}, each with support 1.
ExampleTwoRun ==
    /\ pc = "finalize"
    /\ call.input_csv = ExampleItemsets
    /\ call.minsup_relative = << 1, 1 >>
    /\ min_len = 1
    /\ max_len >= 3

ExampleTwoAsStated ==
    ExampleTwoRun =>
        {Record(<< << 1, 2 >> >>, 1),
         Record(<< << 1 >>, << 2 >> >>, 1),
         Record(<< << 1 >>, << 3 >> >>, 1),
         Record(<< << 2 >>, << 3 >> >>, 1),
         Record(<< << 1, 2 >>, << 3 >> >>, 1)} \subseteq Emitted

\* C3, amended: the run yields {1 2}, {1} {3}, {2} {3} and {1 2} {3}, each
\* with support 1, and no record for {1} {2}, which the sequence does not
\* contain (1 and 2 occur in one itemset only).
ExampleTwoRecords ==
    ExampleTwoRun =>
        /\ {Record(<< << 1, 2 >> >>, 1),
            Record(<< << 1 >>, << 3 >> >>, 1),
            Record(<< << 2 >>, << 3 >> >>, 1),
            Record(<< << 1, 2 >>, << 3 >> >>, 1)} \subseteq Emitted
        /\ \A r \in Emitted : r.pattern # << << 1 >>, << 2 >> >>
        /\ SupportOf(ExampleItemsets, << {1}, {2} >>) = 0

ExampleTwoReached == ExampleTwoRun /\ Len(out_file) = 7

\* C4: on a file whose itemsets all hold one item, the records are exactly
\* the item sequences of min_len..max_len items whose support (lines having
\* them as a subsequence) reaches the threshold, each with that support;
\* the spec's first example yields exactly {1}, {3} and {1} {3}, support 2.
ItemsOfLine(line) == SelectSeq(BeforeEnd(line), LAMBDA t : t > 0)

RECURSIVE IsSubsequence(_, _)
IsSubsequence(p, s) ==
    IF p = << >> THEN TRUE
    ELSE IF s = << >> THEN FALSE
    ELSE IF Head(p) = Head(s) THEN IsSubsequence(Tail(p), Tail(s))
    ELSE IsSubsequence(p, Tail(s))

FlatSupport(file, p) ==
    Cardinality({i \in DOMAIN file : IsSubsequence(p, ItemsOfLine(file[i]))})

ItemSequences(items, lo, hi) == UNION {[1..n -> items] : n \in lo..hi}

FlatExpected ==
    {<< p, FlatSupport(call.input_csv, p) >> :
        p \in {q \in ItemSequences(ItemsOfFile(call.input_csv), min_len, max_len) :
                  FlatSupport(call.input_csv, q) >= minsupp_abs}}

FlatEmitted == {<< [i \in DOMAIN r.pattern |-> r.pattern[i][1]], r.support >> : r \in Emitted}

ExampleOneRun ==
    /\ pc = "finalize"
    /\ call.input_csv = ExampleFlat
    /\ call.minsup_relative = << 1, 1 >>
    /\ min_len = 1
    /\ max_len >= 2

FlatPathExact ==
    /\ (pc = "finalize" /\ ~HasMultiItemset(call.input_csv)) =>
           /\ \A r \in Emitted : \A g \in Range(r.pattern) : Len(g) = 1
           /\ FlatEmitted = FlatExpected
    /\ ExampleOneRun =>
           Emitted = {Record(<< << 1 >> >>, 2), Record(<< << 3 >> >>, 2),
                      Record(<< << 1 >>, << 3 >> >>, 2)}

ExampleOneReached == ExampleOneRun /\ Len(out_file) = 3 /\ pattern_count = 3

\* C5: the records of a run with min_len = k are the records of the run
\* with min_len = 1 on the same input, in the same order and with the same
\* supports, that have at least k items; pattern_count counts them; and the
\* nodes the search accepted are those of the run with min_len = 1.
RunWithMinLenOne == RunToFinalize(RunBeginEff(Constructed(max_len, 1, << call >>)))

MinLenFiltersOutputOnly ==
    pc = "finalize" =>
        LET one == RunWithMinLenOne
        IN /\ out_file = SelectSeq(one.out_file, LAMBDA r : NumItems(r.pattern) >= min_len)
           /\ pattern_count = Len(out_file)
           /\ visited = one.visited
           /\ visited = one.out_file

MinLenSuppressedSome ==
    /\ pc = "finalize"
    /\ min_len = 2
    /\ out_file # << >>
    /\ Len(out_file) < Len(visited)
    /\ \E r \in Emitted : Len(r.pattern) = 1

\* C6: no record and no accepted node has more than max_len items, no call
\* of a recursive growth procedure is active with k > max_len, and with
\* max_len = 1 no projected set is built and every record has one item.
IsRecursion(f) == f.fn \in {"recursion_single_items", "recursion_multi"}

MaxLenBoundsSearch ==
    /\ \A r \in Emitted \cup Range(visited) : NumItems(r.pattern) <= max_len
    /\ \A i \in DOMAIN stack : stack[i].k <= max_len
    /\ max_len = 1 =>
           /\ n_projected = 0
           /\ \A i \in DOMAIN stack : ~IsRecursion(stack[i])
           /\ \A r \in Emitted : NumItems(r.pattern) = 1

\* A frequent extension was accepted at depth max_len and not grown further.
CutAtMaxLen ==
    /\ pc = "grow"
    /\ IsRecursion(Top(Eng))
    /\ Top(Eng).k = max_len
    /\ \E r \in Range(visited) : NumItems(r.pattern) = max_len
    /\ \E c \in Range(Top(Eng).loop1) \cup Range(Top(Eng).loop2) : Len(c.val) >= minsupp_abs

\* C8: in every active call, the support computed for each candidate
\* extension is at most the support computed for the pattern the call
\* extends; so every record of two or more items has support no larger
\* than the accepted node that is its pattern without the last item.
WithoutLastItem(pattern) ==
    LET n == Len(pattern)
    IN IF Len(pattern[n]) = 1 THEN Slice(pattern, n - 1)
       ELSE [pattern EXCEPT ![n] = Slice(@, Len(@) - 1)]

SupportsAntiMonotone ==
    /\ \A i \in DOMAIN stack :
           \A c \in Range(stack[i].loop1) \cup Range(stack[i].loop2) :
               Len(c.val) <= stack[i].parent_support
    /\ \A r \in Emitted :
           NumItems(r.pattern) >= 2 =>
               \E q \in Range(visited) :
                   q.pattern = WithoutLastItem(r.pattern) /\ r.support <= q.support

SupportDropped ==
    /\ pc = "finalize"
    /\ \E r \in Emitted : \E q \in Range(visited) :
           /\ NumItems(r.pattern) >= 2
           /\ q.pattern = WithoutLastItem(r.pattern)
           /\ r.support < q.support

\* C7: once the frequent-item pass of a run is over, the flag says whether
\* some itemset of some line of that run's input (before its terminator)
\* holds two or more item tokens, whatever an earlier run on the object
\* left; and every active call belongs to the one growth path the flag
\* selects.
PathOf(flag) ==
    IF flag THEN {"prefixspan_with_multiple_items", "recursion_multi"}
    ELSE {"prefixspan_with_single_items", "recursion_single_items"}

DispatchFollowsInput ==
    /\ pc \in {"prune", "grow", "finalize"} =>
           contains_itemsets_with_multiple_items = HasMultiItemset(call.input_csv)
    /\ \A i \in DOMAIN stack : stack[i].fn \in PathOf(contains_itemsets_with_multiple_items)

\* The second run on an object is flat; the buffer still holds the
\* i-extension an earlier run on the general path wrote at position 1.
FlatRunAfterItemsetRun ==
    /\ n_runs = 2
    /\ pc = "grow"
    /\ ~contains_itemsets_with_multiple_items
    /\ Top(Eng).fn = "prefixspan_with_single_items"
    /\ At(buffer, 1) > 0

\* C9: a call of run() with an empty or missing output_file raises, and
\* leaves pattern_count, total_time_ms, the database reference, the writer
\* and the output file as they were; no input is loaded.
InvalidOutputRejected ==
    [][(pc = "idle" /\ pending # << >> /\ Falsy(Head(pending).output_file)) =>
          /\ raised'
          /\ pc' = "idle"
          /\ pattern_count' = pattern_count
          /\ total_time_ms' = total_time_ms
          /\ db' = db
          /\ writer' = writer
          /\ out_file' = out_file
          /\ sequence_count' = sequence_count
          /\ n_runs' = n_runs]_vars

\* The rejected call came after a run that emitted records.
RejectedAfterRun ==
    /\ raised
    /\ pc = "idle"
    /\ n_runs >= 1
    /\ pattern_count > 0
    /\ total_time_ms > 0
    /\ out_file # << >>

\* C11: after the pruning pass of either path every database entry is None
\* or a token list that holds at least one item, holds only items whose
\* support reaches the threshold, in the order the loaded line has them, and
\* holds the terminator exactly once, as its last token; on the itemset path
\* a present entry does not start with a separator and has no two adjacent
\* separators, on the flat path it has no separator at all.
Pruned == pc \in {"grow", "finalize"}
Loaded == load_csv_tokens(call.input_csv)
ItemSupport(a) ==
    Cardinality({i \in DOMAIN Loaded : a \in Range(ItemsOfLine(Loaded[i].toks))})
OnlyItems(toks) == SelectSeq(toks, LAMBDA t : t > 0)

TerminatedOnce(toks) ==
    /\ toks # << >>
    /\ Last(toks) = END
    /\ \A i \in 1..(Len(toks) - 1) : toks[i] # END

KeepsFrequentInOrder(toks, line) ==
    /\ OnlyItems(toks) # << >>
    /\ \A a \in Range(OnlyItems(toks)) : ItemSupport(a) >= minsupp_abs
    /\ IsSubsequence(OnlyItems(toks), ItemsOfLine(line))

SeparatorsWellFormed(toks) ==
    /\ toks # << >> => Head(toks) # SEP
    /\ \A i \in 1..(Len(toks) - 1) : ~(toks[i] = SEP /\ toks[i + 1] = SEP)

NoSeparator(toks) == SEP \notin Range(toks)

PrunedEntryOk(entry, line) ==
    \/ entry.absent
    \/ /\ TerminatedOnce(entry.toks)
       /\ KeepsFrequentInOrder(entry.toks, line)
       /\ IF contains_itemsets_with_multiple_items
          THEN SeparatorsWellFormed(entry.toks)
          ELSE NoSeparator(entry.toks)

PruningPostcondition ==
    Pruned => \A i \in DOMAIN db.sequences : PrunedEntryOk(db.sequences[i], Loaded[i].toks)

\* C12: a growth call entered with last_buf_pos = p, and the calls below it,
\* change no buffer position <= p; at every emit the buffer up to the end
\* index is the token encoding of the extensions chosen from the top-level
\* item down to the node, so the length filter and the record read the chain
\* only; and the candidate maps of every active _recursion_multi call are
\* those its scan computes from that encoding alone, whatever a sibling
\* branch or an earlier run left further up the buffer.
\* The tokens a caller wrote for the call it is waiting for.
ExtensionOf(f) ==
    IF ~IsRecursion(f) THEN << f.loop1[f.i1 - 1].key >>
    ELSE IF f.fn = "recursion_single_items" THEN << SEP, f.loop1[f.i1 - 1].key >>
    ELSE IF f.i2 > 1 THEN << SEP, f.loop2[f.i2 - 1].key >>
    ELSE << f.loop1[f.i1 - 1].key >>

\* The tokens the innermost call writes when it accepts its next candidate.
NextExtension(f) ==
    IF f.fn = "recursion_single_items" THEN << SEP, f.loop1[f.i1].key >>
    ELSE IF f.i1 <= Len(f.loop1) THEN << f.loop1[f.i1].key >>
    ELSE << SEP, f.loop2[f.i2].key >>

\* The encoding of the chain of extensions made by the first j frames.
RECURSIVE ChainTokens(_, _)
ChainTokens(frames, j) ==
    IF j = 0 THEN << >> ELSE ChainTokens(frames, j - 1) \o ExtensionOf(frames[j])

ChainOnly(chain) == [i \in 1..BufferLen |-> IF i <= Len(chain) THEN chain[i] ELSE 0]

FramePrefixHolds ==
    \A j \in 2..Len(stack) :
        LET chain == ChainTokens(stack, j - 1)
        IN /\ Len(chain) = stack[j].last_buf_pos + 1
           /\ Slice(buffer, Len(chain)) = chain

ScanReadsChainOnly ==
    \A j \in 2..Len(stack) :
        stack[j].fn = "recursion_multi" =>
            LET maps == ScanMulti(db.sequences, stack[j].database,
                                  ChainOnly(ChainTokens(stack, j - 1)), stack[j].last_buf_pos)
            IN stack[j].loop1 = maps.map_postfix /\ stack[j].loop2 = maps.map_normal

WritesAboveActiveCalls ==
    \A j \in DOMAIN stack :
        IsRecursion(stack[j]) =>
            \A i \in 0..stack[j].last_buf_pos : At(buffer', i) = At(buffer, i)

EmitStep == pc = "grow" /\ IsRecursion(Top(Eng)) /\ Len(visited') = Len(visited) + 1

EmitReadsChain ==
    EmitStep =>
        LET chain == ChainTokens(stack, Len(stack) - 1) \o NextExtension(Top(Eng))
        IN /\ Slice(buffer', Len(chain)) = chain
           /\ Last(visited').pattern = ItemGroups(chain, << >>)
           /\ IF Len(OnlyItems(chain)) >= min_len
              THEN out_file' = Append(out_file, Last(visited'))
              ELSE out_file' = out_file

ScratchBufferDiscipline ==
    /\ [](FramePrefixHolds /\ ScanReadsChainOnly)
    /\ [][WritesAboveActiveCalls /\ EmitReadsChain]_vars

\* In a second run of the object, a call two levels down is active while the
\* buffer beyond its last_buf_pos still holds tokens of another branch or run.
StaleBeyondActiveCall ==
    /\ n_runs >= 2
    /\ pc = "grow"
    /\ Len(stack) >= 3
    /\ \E i \in (Top(Eng).last_buf_pos + 1)..(BufferLen - 1) : At(buffer, i) # 0

====
